---- MODULE Spec2Model ----
(***************************************************************************)
(* Clerk webhook -> Novu relay.  Three route handler variants receive a    *)
(* signed webhook request, verify it with svix, and trigger a Novu         *)
(* workflow:                                                               *)
(*   "inline"  : src/unnamed/part_001  (POST with inline if-chains)        *)
(*   "table"   : src/unnamed/part_000  lines 132-248 (emailPayloadBuilders)*)
(*   "builder" : src/unnamed/part_000  lines 254-354 (workflowBuilder ...) *)
(* A request is handled as a sequence of steps; each awaited operation of  *)
(* the handler is one action.                                              *)
(***************************************************************************)
EXTENDS Integers, Sequences, FiniteSets, TLC

VARIABLES variant, env, net, pc, reqJson, body, evt, calls, novu, out

vars == <<variant, env, net, pc, reqJson, body, evt, calls, novu, out>>

Variants == {"inline", "table", "builder"}

(***************************************************************************)
(* JavaScript values.  An object is a function from its own keys to        *)
(* values; an absent key reads as undefined.  null is a record of its own. *)
(***************************************************************************)
Null == [null |-> TRUE]

EmptyObj == [k \in {} |-> ""]

Has(o, k) == k \in DOMAIN o

\* `o.k || ''` for a string field: undefined and '' both give ''
OrEmpty(o, k) == IF Has(o, k) THEN o[k] ELSE ""

(***************************************************************************)
(* Text.  A body is a sequence of tokens: a JSON document token carrying   *)
(* its value, insignificant whitespace, or text that is not JSON.          *)
(***************************************************************************)
WS == [tok |-> "ws"]

Doc(v) == [tok |-> "json", val |-> v]

Junk(s) == [tok |-> "junk", text |-> s]

Ok(v) == [ok |-> TRUE, value |-> v]

Err(name, msg) == [ok |-> FALSE, name |-> name, message |-> msg]

\* JSON.parse: whitespace around the document is skipped; anything that is
\* not exactly one document is a SyntaxError.
JSONparse(text) ==
    LET t == SelectSeq(text, LAMBDA k : k # WS)
    IN  IF Len(t) = 1 /\ t[1].tok = "json"
        THEN Ok(t[1].val)
        ELSE Err("SyntaxError", "Unexpected token in JSON")

\* JSON.stringify without an indent argument: the compact serialisation.
JSONstringify(v) == <<Doc(v)>>

\* String(obj) for a plain object, as JSON.parse applies it to a non-string
ObjectToString(o) == <<Junk("[object Object]")>>

(***************************************************************************)
(* Headers and the svix signature.                                         *)
(***************************************************************************)
Str(s) == [s |-> s]

\* Headers.get(name): null when the header is absent
HeadersGet(h, name) == IF name \in DOMAIN h THEN h[name] ELSE Null

\* `!x` for a header value: null or the empty string
Falsy(x) == x = Null \/ x = Str("")

\* The signature a sender holding `key` puts in svix-signature for a message
Sign(key, id, ts, text) == [v1 |-> <<key, id, ts, text>>]

FreshTimestamps == {"t_now"}

\* Webhook.verify(body, headers): the signature must be the one the secret
\* gives for exactly this id, timestamp and body, and the timestamp must be
\* within tolerance; the result is the parsed body.
WebhookVerify(secret, text, id, ts, sig) ==
    IF /\ sig = Sign(secret, id, ts, text)
       /\ ts \in {Str(t) : t \in FreshTimestamps}
    THEN JSONparse(text)
    ELSE Err("WebhookVerificationError", "No matching signature found")

(***************************************************************************)
(* Strings that the code transforms are kept as the list of their parts    *)
(* between underscores: 'magic_link_sign_in' is <<"magic","link","sign",   *)
(* "in">>, and '' is <<"">>.                                               *)
(***************************************************************************)
RECURSIVE Join(_, _)
Join(words, sep) ==
    IF Len(words) = 0 THEN ""
    ELSE IF Len(words) = 1 THEN words[1]
    ELSE words[1] \o sep \o Join(Tail(words), sep)

\* the string itself
Text(words) == Join(words, "_")

\* s.replace(/_/g, '-')
ReplaceUnderscores(words) == Join(words, "-")

EmptyString == <<"">>

VerificationCode == <<"verification", "code">>
PasswordChanged == <<"password", "changed">>
MagicLinkSignIn == <<"magic", "link", "sign", "in">>
ResetPasswordCode == <<"reset", "password", "code">>
OrganizationInvitation == <<"organization", "invitation">>
Invitation == <<"invitation">>

(***************************************************************************)
(* Results of handling a verified event, up to the triggerWorkflow call.   *)
(***************************************************************************)
Call(w, s, p) == [kind |-> "call", workflow |-> w, subscriber |-> s, payload |-> p]

Skip == [kind |-> "skip"]

Throw(name, msg) == [kind |-> "throw", name |-> name, message |-> msg]

TypeError == Throw("TypeError", "Cannot read properties of undefined")

\* data.phone_numbers?.[0]?.phone_number || ''
FirstPhone(data) ==
    IF Has(data, "phone_numbers") /\ Len(data.phone_numbers) > 0
    THEN OrEmpty(data.phone_numbers[1], "phone_number")
    ELSE ""

\* emailData.app?.name || ''   and   emailData.org?.name || ''
NameOf(emailData, k) ==
    IF Has(emailData, k) THEN OrEmpty(emailData[k], "name") ELSE ""

\* `x && ...` for the nested data record: undefined and null are falsy, an
\* object (even an empty one) is truthy
Truthy(data, k) == Has(data, k) /\ data[k] # Null

(***************************************************************************)
(* part_001: the inline handler                                            *)
(***************************************************************************)
InlineUserSubscriber(data) ==
    [subscriberId |-> "clerk_" \o OrEmpty(data.email_addresses[1], "email_address"),
     firstName |-> OrEmpty(data, "first_name"),
     lastName |-> OrEmpty(data, "last_name"),
     email |-> OrEmpty(data.email_addresses[1], "email_address"),
     phone |-> FirstPhone(data),
     locale |-> "en_US",
     avatar |-> OrEmpty(data, "image_url"),
     data |-> [clerkCreatedAt |-> OrEmpty(data, "created_at"),
               lastSignInAt |-> OrEmpty(data, "last_sign_in_at"),
               clerkUpdatedAt |-> OrEmpty(data, "updated_at"),
               username |-> OrEmpty(data, "username"),
               clerkUserId |-> OrEmpty(data, "id")]]

\* EmailSubscriber that takes the identifier from the event's id
EmailSubscriber_EventId(data) ==
    [subscriberId |-> data.id,
     email |-> OrEmpty(data, "to_email_address")]

EmailSubscriber(data) ==
    [subscriberId |-> "clerk_" \o OrEmpty(data, "to_email_address"),
     email |-> OrEmpty(data, "to_email_address")]

\* the fields every inline email payload carries; data.data.app.name is read
\* without a guard
InlineCommon(data) ==
    [subject |-> OrEmpty(data, "subject"),
     app |-> [name |-> OrEmpty(data.data.app, "name")],
     requested_by |-> OrEmpty(data.data, "requested_by"),
     requested_from |-> OrEmpty(data.data, "requested_from"),
     requested_at |-> OrEmpty(data.data, "requested_at"),
     device |-> OrEmpty(data.data, "requested_by")]

InlineSpecific(data) ==
    CASE data.slug \in {VerificationCode, ResetPasswordCode, Invitation} ->
            [otp_code |-> OrEmpty(data.data, "otp_code")]
      [] data.slug = PasswordChanged ->
            [greeting_name |-> OrEmpty(data.data, "greeting_name"),
             primary_email_address |-> OrEmpty(data.data, "primary_email_address")]
      [] data.slug = MagicLinkSignIn ->
            [magic_link |-> OrEmpty(data.data, "magic_link"),
             ttl_minutes |-> OrEmpty(data.data, "ttl_minutes")]
      [] data.slug = OrganizationInvitation ->
            [inviter_name |-> OrEmpty(data.data, "inviter_name"),
             org_name |-> OrEmpty(data.data.org, "name"),
             action_url |-> OrEmpty(data.data, "action_url")]

InlinePayload(data) ==
    [body |-> [data |-> InlineCommon(data) @@ InlineSpecific(data)]]

\* InlineWorkflow with one literal mistyped
InlineWorkflow_Typo(slug) ==
    CASE slug = VerificationCode -> "clerk-verification-code"
      [] slug = PasswordChanged -> "clerk-password-changed"
      [] slug = MagicLinkSignIn -> "clerk-magic-link-signin"
      [] slug = ResetPasswordCode -> "clerk-reset-password-code"
      [] slug = OrganizationInvitation -> "clerk-organization-invitation"
      [] slug = Invitation -> "clerk-invitation"

\* the workflow literal of each `if (data.slug === ...)` block
InlineWorkflow(slug) ==
    CASE slug = VerificationCode -> "clerk-verification-code"
      [] slug = PasswordChanged -> "clerk-password-changed"
      [] slug = MagicLinkSignIn -> "clerk-magic-link-sign-in"
      [] slug = ResetPasswordCode -> "clerk-reset-password-code"
      [] slug = OrganizationInvitation -> "clerk-organization-invitation"
      [] slug = Invitation -> "clerk-invitation"

InlineSlugs ==
    {VerificationCode, PasswordChanged, MagicLinkSignIn, ResetPasswordCode,
     OrganizationInvitation, Invitation}

\* InlineHandle whose first test is on the 'user.' prefix of the kind
InlineHandle_AnyUser(e) ==
    IF e.type \in {"user.created", "user.updated"} THEN
        IF Len(e.data.email_addresses) = 0
        THEN TypeError
        ELSE Call("clerk-user-created", InlineUserSubscriber(e.data), EmptyObj)
    ELSE Skip

InlineHandle(e) ==
    IF e.type = "user.created" THEN
        IF Len(e.data.email_addresses) = 0
        THEN TypeError
        ELSE Call("clerk-user-created", InlineUserSubscriber(e.data), EmptyObj)
    ELSE IF e.type = "email.created" THEN
        IF Has(e.data, "slug") /\ e.data.slug \in InlineSlugs /\ Truthy(e.data, "data")
        THEN IF \/ ~Has(e.data.data, "app")
                \/ (e.data.slug = OrganizationInvitation /\ ~Has(e.data.data, "org"))
             THEN TypeError
             ELSE Call(InlineWorkflow(e.data.slug), EmailSubscriber(e.data),
                       InlinePayload(e.data))
        ELSE Skip
    ELSE Skip

\* The `if` blocks of part_001 that call triggerWorkflow, in source order:
\* block 1 is `evt.type === 'user.created'`, the others are the six
\* `data.slug === ... && data.data` blocks inside `evt.type === 'email.created'`
InlineBlockSlugs ==
    <<VerificationCode, PasswordChanged, MagicLinkSignIn, ResetPasswordCode,
      OrganizationInvitation, Invitation>>

InlineBlockGuard(i, e) ==
    IF i = 1
    THEN e.type = "user.created"
    ELSE /\ e.type = "email.created"
         /\ Has(e.data, "slug")
         /\ e.data.slug = InlineBlockSlugs[i - 1]
         /\ Truthy(e.data, "data")

\* the blocks whose condition holds for event e
InlineBlocksFired(e) ==
    {i \in 1..(Len(InlineBlockSlugs) + 1) : InlineBlockGuard(i, e)}

(***************************************************************************)
(* part_000, lines 65-205: the table-driven handler                        *)
(***************************************************************************)
TableCommon(emailData) ==
    [subject |-> OrEmpty(emailData, "subject"),
     requested_by |-> OrEmpty(emailData, "requested_by"),
     requested_from |-> OrEmpty(emailData, "requested_from"),
     requested_at |-> OrEmpty(emailData, "requested_at"),
     device |-> OrEmpty(emailData, "requested_by")]

TableApp(emailData) == [app |-> [name |-> NameOf(emailData, "app")]]

\* the six functions stored in emailPayloadBuilders
EmailPayloadBuilder(key, emailData) ==
    CASE key \in {VerificationCode, Invitation} ->
            TableCommon(emailData) @@ TableApp(emailData) @@
            [otp_code |-> OrEmpty(emailData, "otp_code")]
      [] key = PasswordChanged ->
            TableCommon(emailData) @@ TableApp(emailData) @@
            [greeting_name |-> OrEmpty(emailData, "greeting_name"),
             primary_email_address |-> OrEmpty(emailData, "primary_email_address")]
      [] key = MagicLinkSignIn ->
            TableCommon(emailData) @@ TableApp(emailData) @@
            [magic_link |-> OrEmpty(emailData, "magic_link"),
             ttl_minutes |-> OrEmpty(emailData, "ttl_minutes")]
      [] key = ResetPasswordCode ->
            TableCommon(emailData) @@
            [otp_code |-> OrEmpty(emailData, "otp_code"),
             app_name |-> NameOf(emailData, "app")]
      [] key = OrganizationInvitation ->
            TableCommon(emailData) @@ TableApp(emailData) @@
            [inviter_name |-> OrEmpty(emailData, "inviter_name"),
             org_name |-> NameOf(emailData, "org"),
             action_url |-> OrEmpty(emailData, "action_url")]

EmailPayloadBuilderKeys ==
    {VerificationCode, PasswordChanged, MagicLinkSignIn, ResetPasswordCode,
     OrganizationInvitation, Invitation}

\* properties an object literal inherits from Object.prototype
ObjectPrototypeKeys == {<<"constructor">>, <<"toString">>}

\* Object.prototype[key](emailData), called without a receiver
ObjectPrototypeCall(key, emailData) ==
    CASE key = <<"constructor">> -> emailData
      [] key = <<"toString">> -> "[object Undefined]"

\* emailPayloadBuilders[key]: an own property, else an inherited one, else
\* undefined
BuilderLookup(key) ==
    IF key \in EmailPayloadBuilderKeys THEN [found |-> TRUE, own |-> TRUE]
    ELSE IF key \in ObjectPrototypeKeys THEN [found |-> TRUE, own |-> FALSE]
    ELSE [found |-> FALSE, own |-> FALSE]

\* data.email_addresses[0]?.email_address || ''
FirstEmail(data) ==
    IF Len(data.email_addresses) > 0
    THEN OrEmpty(data.email_addresses[1], "email_address")
    ELSE ""

TableUserSubscriber(data) ==
    [subscriberId |-> data.id,
     firstName |-> OrEmpty(data, "first_name"),
     lastName |-> OrEmpty(data, "last_name"),
     email |-> FirstEmail(data),
     phone |-> FirstPhone(data),
     locale |-> "en_US",
     avatar |-> OrEmpty(data, "image_url"),
     data |-> [username |-> OrEmpty(data, "username"),
               clerkUserId |-> OrEmpty(data, "id")]]

\* data.slug || ''
SlugOrEmpty(data) == IF Has(data, "slug") THEN data.slug ELSE EmptyString

TableHandle(event) ==
    IF event.type = "user.created" THEN
        Call("clerk-user-created", TableUserSubscriber(event.data), EmptyObj)
    ELSE IF event.type = "email.created" THEN
        LET data == event.data
            builder == BuilderLookup(SlugOrEmpty(data))
        IN  IF builder.found /\ Truthy(data, "data")
            THEN Call(ReplaceUnderscores(SlugOrEmpty(data)),
                      EmailSubscriber(data),
                      IF builder.own
                      THEN EmailPayloadBuilder(data.slug, data.data)
                      ELSE ObjectPrototypeCall(data.slug, data.data))
            ELSE Skip
    ELSE Skip

(***************************************************************************)
(* part_000, lines 254-354: the builder-based handler                      *)
(***************************************************************************)
workflowBuilder(event) ==
    IF event.type = "user.created" THEN "user-created"
    ELSE IF event.type = "email.created"
         THEN ReplaceUnderscores(SlugOrEmpty(event.data))
         ELSE ""

\* webhookData.email_addresses[0] is read without a guard on the list
subscriberBuilder(response) ==
    LET webhookData == response.data
    IN  IF ~Has(webhookData, "email_addresses")
        THEN Err("TypeError", "Cannot read properties of undefined")
        ELSE Ok([subscriberId |-> webhookData.id,
                 firstName |-> OrEmpty(webhookData, "first_name"),
                 lastName |-> OrEmpty(webhookData, "last_name"),
                 email |-> FirstEmail(webhookData),
                 phone |-> FirstPhone(webhookData),
                 locale |-> "en_US",
                 avatar |-> OrEmpty(webhookData, "image_url"),
                 data |-> [username |-> OrEmpty(webhookData, "username"),
                           clerkUserId |-> OrEmpty(webhookData, "id")]])

\* JSON.parse(response) with response an object: it is first made a string
payloadBuilder(response) == JSONparse(ObjectToString(response))

handleWebhookEvent(event) ==
    IF event.type # "user.created" /\ event.type # "email.created"
    THEN Skip
    ELSE LET workflow == workflowBuilder(event)
             subscriber == subscriberBuilder(event)
             payload == payloadBuilder(event)
         IN  IF ~subscriber.ok THEN Throw(subscriber.name, subscriber.message)
             ELSE IF ~payload.ok THEN Throw(payload.name, payload.message)
             ELSE Call(workflow, subscriber.value, payload.value)

\* what a variant does with a verified event, up to its triggerWorkflow call
Handle(v, e) ==
    CASE v = "inline" -> InlineHandle(e)
      [] v = "table" -> TableHandle(e)
      [] v = "builder" -> handleWebhookEvent(e)

(***************************************************************************)
(* Responses and the try/catch structure of each POST function.            *)
(***************************************************************************)
Undefined == [undefined |-> TRUE]

\* a string variable not yet assigned
NoText == <<[tok |-> "undefined"]>>

Pending == [kind |-> "pending"]

Response(text, status) == [kind |-> "response", status |-> status, text |-> text]

\* an exception that leaves the POST function
Escapes(e) == [kind |-> "throw", name |-> e.name, message |-> e.message]

\* PostCatch with catch blocks that answer 500
PostCatch_Status500(v, stage, e) ==
    IF v = "inline" /\ stage # "verify"
    THEN Escapes(e)
    ELSE Response("Error: " \o e.message, 500)

\* What becomes of an exception raised at `stage` of variant v.
\*   inline : only wh.verify sits in a try block
\*   table  : verifyClerkWebhook is called in a try block whose catch answers
\*            400 with the error's message; its own catch around
\*            webhook.verify rethrows 'Webhook verification failed'
\*   builder: the whole body of POST is one try block; verifyWebhook rethrows
\*            'Verification error'
PostCatch(v, stage, e) ==
    CASE v = "inline" ->
            IF stage = "verify"
            THEN Response("Error: Verification error", 400)
            ELSE Escapes(e)
      [] v = "table" ->
            IF stage = "dispatch" THEN Escapes(e)
            ELSE IF stage = "verify"
                 THEN Response("Webhook verification failed", 400)
                 ELSE Response(e.message, 400)
      [] v = "builder" ->
            IF stage = "verify"
            THEN Response("Error: Verification error", 400)
            ELSE Response("Error: " \o e.message, 400)

\* the environment variable each variant reads its signing secret from
SecretVar(v) == IF v = "table" THEN "CLERK_SIGNING_SECRET" ELSE "SIGNING_SECRET"

\* process.env[name]; undefined and '' are both falsy, read here as ''
Getenv(e, name) == IF name \in DOMAIN e THEN e[name] ELSE ""

MissingSecret(v) ==
    CASE v = "inline" ->
            Err("Error", "Error: Please add SIGNING_SECRET from Clerk Dashboard to .env or .env.local")
      [] v = "table" ->
            Err("Error", "Error: Please add CLERK_SIGNING_SECRET from Clerk Dashboard to .env or .env.local")
      [] v = "builder" ->
            Err("Error", "Please add SIGNING_SECRET from Clerk Dashboard to .env")

\* HeadersMissing with `=== null` tests in place of `!x`
HeadersMissing_NullOnly(h) ==
    \/ HeadersGet(h, "svix-id") = Null
    \/ HeadersGet(h, "svix-timestamp") = Null
    \/ HeadersGet(h, "svix-signature") = Null

\* the three header checks: `!svix_id || !svix_timestamp || !svix_signature`
HeadersMissing(h) ==
    \/ Falsy(HeadersGet(h, "svix-id"))
    \/ Falsy(HeadersGet(h, "svix-timestamp"))
    \/ Falsy(HeadersGet(h, "svix-signature"))

\* the answer to a request with a missing header: inline returns a Response,
\* the other two throw 'Missing Svix headers' into their catch block
MissingHeaders(v) ==
    IF v = "inline"
    THEN Response("Error: Missing Svix headers", 400)
    ELSE PostCatch(v, "headers", Err("Error", "Missing Svix headers"))

(***************************************************************************)
(* The requests and environments the handlers are run on.                  *)
(***************************************************************************)
\* the largest number of whitespace tokens a received body carries
MaxWs == 1

UserAda ==
    [id |-> "usr_1",
     email_addresses |-> <<[email_address |-> "a@example.com"]>>,
     first_name |-> "Ada"]

UserFull ==
    [id |-> "usr_2",
     email_addresses |-> <<[email_address |-> "g@example.com"],
                           [email_address |-> "h@example.com"]>>,
     first_name |-> "Grace", last_name |-> "Hopper",
     phone_numbers |-> <<[phone_number |-> "+15550100"]>>,
     image_url |-> "https://img.example.com/g.png",
     username |-> "grace",
     created_at |-> "1700000000", updated_at |-> "1700000001",
     last_sign_in_at |-> "1700000002"]

UserNoEmail == [id |-> "usr_3", email_addresses |-> <<>>, first_name |-> "Ada"]

UserEvents ==
    {[type |-> "user.created", data |-> d] : d \in {UserAda, UserFull, UserNoEmail}}
    \cup {[type |-> "user.updated", data |-> UserAda],
          [type |-> "user.deleted", data |-> [id |-> "usr_1", deleted |-> TRUE]],
          [type |-> "session.created", data |-> [id |-> "sess_1", user_id |-> "usr_1"]]}

NestedFull ==
    [otp_code |-> "123456", app |-> [name |-> "Acme"],
     requested_by |-> "Chrome", requested_from |-> "203.0.113.7",
     requested_at |-> "05 November 2026",
     magic_link |-> "https://acme.example.com/l", ttl_minutes |-> "10",
     inviter_name |-> "Grace", org |-> [name |-> "Navy"],
     action_url |-> "https://acme.example.com/a",
     greeting_name |-> "Ada", primary_email_address |-> "a@example.com"]

NestedNoApp == [otp_code |-> "123456"]

\* the nested record of an email event: absent, null, {}, or filled
WithNested(d) ==
    {d, d @@ [data |-> Null], d @@ [data |-> EmptyObj],
     d @@ [data |-> NestedNoApp], d @@ [data |-> NestedFull]}

WithSlug(d) ==
    {d} \cup {d @@ [slug |-> k] :
                k \in EmailPayloadBuilderKeys \cup ObjectPrototypeKeys \cup {<<"welcome">>}}

WithAddress(d) ==
    {d, d @@ [to_email_address |-> "b@example.com", subject |-> "Your message"]}

EmailData ==
    UNION {UNION {WithNested(d2) : d2 \in WithSlug(d1)} :
              d1 \in WithAddress([id |-> "ema_1"])}

EmailEvents == {[type |-> "email.created", data |-> d] : d \in EmailData}

Events == UserEvents \cup EmailEvents

\* a document followed by n whitespace tokens (a trailing newline, say)
Layout(e, n) == <<Doc(e)>> \o [i \in 1..n |-> WS]

Bodies ==
    {Layout(e, n) : e \in Events, n \in 0..MaxWs}
    \cup {<<>>, <<Junk("not json")>>}

LiveKey == "whsec_live"

\* header values a client may send; Null stands for leaving the header out
IdValues == {Null, Str(""), Str("msg_1")}

TimestampValues == {Null, Str(""), Str("t_now"), Str("t_old")}

\* no header, an empty one, the sender's signature of this very message, a
\* signature made with another key, and the sender's signature of another body
SignatureValues(id, ts, text) ==
    {Null, Str(""), Sign(LiveKey, id, ts, text), Sign("whsec_other", id, ts, text),
     Sign(LiveKey, id, ts, <<Doc([type |-> "user.created", data |-> UserAda])>> \o <<WS, WS, WS>>)}

MakeHeaders(id, ts, sig) ==
    LET all == [n \in {"svix-id", "svix-timestamp", "svix-signature"} |->
                   CASE n = "svix-id" -> id
                     [] n = "svix-timestamp" -> ts
                     [] n = "svix-signature" -> sig]
    IN  [n \in {m \in DOMAIN all : all[m] # Null} |-> all[n]]

Requests ==
    UNION {UNION {{[headers |-> MakeHeaders(id, ts, sig), body |-> b] :
                      sig \in SignatureValues(id, ts, b)} :
                  id \in IdValues, ts \in TimestampValues} :
           b \in Bodies}

Envs ==
    {EmptyObj,
     [SIGNING_SECRET |-> ""],
     [SIGNING_SECRET |-> LiveKey, CLERK_SIGNING_SECRET |-> LiveKey],
     [SIGNING_SECRET |-> LiveKey]}

(***************************************************************************)
(* State.                                                                  *)
(*   variant  the route handler deployed                                   *)
(*   env      process.env                                                  *)
(*   net      the requests received, by request                            *)
(*   pc       where each request's POST invocation stands                  *)
(*   reqJson  `payload`, the result of req.json()                          *)
(*   body     `body`, the string handed to Webhook.verify                  *)
(*   evt      the event Webhook.verify returned                            *)
(*   calls    the triggerWorkflow calls made, in order                     *)
(*   novu     the novu.trigger calls completed, with what triggerWorkflow  *)
(*            returned                                                     *)
(*   out      how POST ended: a Response, or an exception leaving it       *)
(***************************************************************************)
Init ==
    /\ variant \in Variants
    /\ env \in Envs
    /\ net \in [{"r1"} -> Requests]
    /\ pc = [r \in DOMAIN net |-> "start"]
    /\ reqJson = [r \in DOMAIN net |-> Undefined]
    /\ body = [r \in DOMAIN net |-> NoText]
    /\ evt = [r \in DOMAIN net |-> Undefined]
    /\ calls = <<>>
    /\ novu = <<>>
    /\ out = [r \in DOMAIN net |-> Pending]

\* POST ends with outcome o
Finish(r, o) ==
    /\ pc' = [pc EXCEPT ![r] = "done"]
    /\ out' = [out EXCEPT ![r] = o]

Goto(r, l) ==
    /\ pc' = [pc EXCEPT ![r] = l]
    /\ UNCHANGED out

\* `if (!SIGNING_SECRET) throw ...; new Webhook(SIGNING_SECRET)`
CheckSecret(r) ==
    /\ pc[r] = "start"
    /\ IF Getenv(env, SecretVar(variant)) = ""
       THEN Finish(r, PostCatch(variant, "secret", MissingSecret(variant)))
       ELSE Goto(r, "headers")
    /\ UNCHANGED <<variant, env, net, reqJson, body, evt, calls, novu>>

\* `await headers()` and the check of the three svix headers
CheckHeaders(r) ==
    /\ pc[r] = "headers"
    /\ IF HeadersMissing(net[r].headers)
       THEN Finish(r, MissingHeaders(variant))
       ELSE Goto(r, "body")
    /\ UNCHANGED <<variant, env, net, reqJson, body, evt, calls, novu>>

\* `payload = await req.json(); body = JSON.stringify(payload)`
ReadBody(r) ==
    /\ pc[r] = "body"
    /\ LET parsed == JSONparse(net[r].body)
       IN  IF parsed.ok
           THEN /\ reqJson' = [reqJson EXCEPT ![r] = parsed.value]
                /\ body' = [body EXCEPT ![r] = JSONstringify(parsed.value)]
                /\ Goto(r, "verify")
           ELSE /\ Finish(r, PostCatch(variant, "body", parsed))
                /\ UNCHANGED <<reqJson, body>>
    /\ UNCHANGED <<variant, env, net, evt, calls, novu>>

\* Verify with a catch block that logs the error and goes on with the parsed
\* body
Verify_Swallow(r) ==
    /\ pc[r] = "verify"
    /\ LET h == net[r].headers
           verified == WebhookVerify(Getenv(env, SecretVar(variant)), body[r],
                                     h["svix-id"], h["svix-timestamp"],
                                     h["svix-signature"])
       IN  evt' = [evt EXCEPT ![r] = IF verified.ok THEN verified.value
                                     ELSE reqJson[r]]
    /\ Goto(r, "dispatch")
    /\ UNCHANGED <<variant, env, net, reqJson, body, calls, novu>>

\* `evt = wh.verify(body, {svix-id, svix-timestamp, svix-signature})`
Verify(r) ==
    /\ pc[r] = "verify"
    /\ LET h == net[r].headers
           verified == WebhookVerify(Getenv(env, SecretVar(variant)), body[r],
                                     h["svix-id"], h["svix-timestamp"],
                                     h["svix-signature"])
       IN  IF verified.ok
           THEN /\ evt' = [evt EXCEPT ![r] = verified.value]
                /\ Goto(r, "dispatch")
           ELSE /\ Finish(r, PostCatch(variant, "verify", verified))
                /\ UNCHANGED evt
    /\ UNCHANGED <<variant, env, net, reqJson, body, calls, novu>>

\* Dispatch in a handler that keeps the verified event in a variable of the
\* module, which every invocation in flight writes and reads
Dispatch_Shared(r) ==
    /\ pc[r] = "dispatch"
    /\ \E q \in DOMAIN net :
          /\ evt[q] # Undefined
          /\ LET h == Handle(variant, evt[q])
             IN  CASE h.kind = "call" ->
                          /\ calls' = Append(calls, [req |-> r, workflow |-> h.workflow,
                                                     subscriber |-> h.subscriber,
                                                     payload |-> h.payload])
                          /\ Goto(r, "trigger")
                   [] h.kind = "skip" ->
                          /\ Goto(r, "respond")
                          /\ UNCHANGED calls
                   [] h.kind = "throw" ->
                          /\ Finish(r, PostCatch(variant, "dispatch", h))
                          /\ UNCHANGED calls
    /\ UNCHANGED <<variant, env, net, reqJson, body, evt, novu>>

\* the event handling of the variant, up to and including the start of its
\* triggerWorkflow call
Dispatch(r) ==
    /\ pc[r] = "dispatch"
    /\ LET h == Handle(variant, evt[r])
       IN  CASE h.kind = "call" ->
                    /\ calls' = Append(calls, [req |-> r, workflow |-> h.workflow,
                                               subscriber |-> h.subscriber,
                                               payload |-> h.payload])
                    /\ Goto(r, "trigger")
             [] h.kind = "skip" ->
                    /\ Goto(r, "respond")
                    /\ UNCHANGED calls
             [] h.kind = "throw" ->
                    /\ Finish(r, PostCatch(variant, "dispatch", h))
                    /\ UNCHANGED calls
    /\ UNCHANGED <<variant, env, net, reqJson, body, evt, novu>>

\* NovuTrigger in a handler that returns what triggerWorkflow returned when
\* the remote call failed
NovuTrigger_Propagate(r) ==
    /\ pc[r] = "trigger"
    /\ \E resolved \in BOOLEAN :
          /\ novu' = Append(novu, [req |-> r, resolved |-> resolved,
                                   returned |-> IF resolved THEN 200 ELSE 500])
          /\ IF resolved
             THEN Goto(r, "respond")
             ELSE Finish(r, Response("Error triggering notification", 500))
    /\ UNCHANGED <<variant, env, net, reqJson, body, evt, calls>>

\* NovuTrigger whose catch block calls novu.trigger once more
NovuTrigger_Retry(r) ==
    /\ pc[r] = "trigger"
    /\ \E resolved \in BOOLEAN :
          novu' = novu \o
                  (IF resolved
                   THEN <<[req |-> r, resolved |-> TRUE, returned |-> 200]>>
                   ELSE <<[req |-> r, resolved |-> FALSE, returned |-> 500],
                          [req |-> r, resolved |-> TRUE, returned |-> 200]>>)
    /\ Goto(r, "respond")
    /\ UNCHANGED <<variant, env, net, reqJson, body, evt, calls>>

\* triggerWorkflow: `await novu.trigger(...)` resolves or rejects; either way
\* triggerWorkflow returns a Response (200 or 500) and the handler goes on
NovuTrigger(r) ==
    /\ pc[r] = "trigger"
    /\ \E resolved \in BOOLEAN :
          novu' = Append(novu, [req |-> r, resolved |-> resolved,
                                returned |-> IF resolved THEN 200 ELSE 500])
    /\ Goto(r, "respond")
    /\ UNCHANGED <<variant, env, net, reqJson, body, evt, calls>>

\* Respond in a handler that calls triggerWorkflow without `await`: the
\* response may be returned while the call is still in flight
Respond_Early(r) ==
    /\ pc[r] \in {"trigger", "respond"}
    /\ Finish(r, Response("Webhook received", 200))
    /\ UNCHANGED <<variant, env, net, reqJson, body, evt, calls, novu>>

\* `return new Response('Webhook received', { status: 200 })`
Respond(r) ==
    /\ pc[r] = "respond"
    /\ Finish(r, Response("Webhook received", 200))
    /\ UNCHANGED <<variant, env, net, reqJson, body, evt, calls, novu>>

Next ==
    \/ \E r \in DOMAIN net : CheckSecret(r)
    \/ \E r \in DOMAIN net : CheckHeaders(r)
    \/ \E r \in DOMAIN net : ReadBody(r)
    \/ \E r \in DOMAIN net : Verify(r)
    \/ \E r \in DOMAIN net : Dispatch(r)
    \/ \E r \in DOMAIN net : NovuTrigger(r)
    \/ \E r \in DOMAIN net : Respond(r)

Spec == Init /\ [][Next]_vars

(***************************************************************************)
(* Vocabulary of the properties.                                           *)
(***************************************************************************)
\* the status of the Response POST returned; 0 when it returned none
StatusOf(o) == IF o.kind = "response" THEN o.status ELSE 0

\* the triggerWorkflow calls made while handling request r
CallsOf(r) == SelectSeq(calls, LAMBDA c : c.req = r)

\* the signing secret the deployed variant reads is set
Configured == Getenv(env, SecretVar(variant)) # ""

\* one of the three svix headers is absent or empty
SomeHeaderAbsentOrEmpty(r) ==
    \E n \in {"svix-id", "svix-timestamp", "svix-signature"} :
        \/ n \notin DOMAIN net[r].headers
        \/ net[r].headers[n] = Str("")

\* what Webhook.verify gives for the string the handler handed it
VerifyOutcome(r) ==
    WebhookVerify(Getenv(env, SecretVar(variant)), body[r],
                  HeadersGet(net[r].headers, "svix-id"),
                  HeadersGet(net[r].headers, "svix-timestamp"),
                  HeadersGet(net[r].headers, "svix-signature"))

\* Webhook.verify was called for r
VerifyCalled(r) == body[r] # NoText

\* r holds a verified event
Verified(r) == evt[r] # Undefined

(***************************************************************************)
(* C1 (as stated): in every variant, a request with one of svix-id,        *)
(* svix-timestamp, svix-signature absent or empty is answered with status  *)
(* 400 and makes no triggerWorkflow call.                                  *)
(***************************************************************************)
C1_AsStated ==
    \A r \in DOMAIN net :
        SomeHeaderAbsentOrEmpty(r) =>
            /\ CallsOf(r) = <<>>
            /\ pc[r] = "done" => StatusOf(out[r]) = 400

(***************************************************************************)
(* C1 (amended): a request with one of the three svix headers absent or    *)
(* empty never makes a triggerWorkflow call, and when the signing secret   *)
(* is configured it is answered with status 400 (without a secret the      *)
(* inline handler throws before it looks at the headers).                  *)
(***************************************************************************)
C1_MissingHeaderRejected ==
    \A r \in DOMAIN net :
        SomeHeaderAbsentOrEmpty(r) =>
            /\ CallsOf(r) = <<>>
            /\ (Configured /\ pc[r] = "done") =>
                   /\ StatusOf(out[r]) = 400
                   /\ ~VerifyCalled(r)

C1_Witness ==
    \E r \in DOMAIN net :
        /\ Configured
        /\ pc[r] = "done"
        /\ "svix-id" \in DOMAIN net[r].headers
        /\ "svix-signature" \notin DOMAIN net[r].headers
        /\ StatusOf(out[r]) = 400

(***************************************************************************)
(* C2: in every variant, a request with all three headers present whose    *)
(* Webhook.verify call fails is answered with status 400 and makes no      *)
(* triggerWorkflow call.                                                   *)
(***************************************************************************)
C2_FailedVerifyRejected ==
    \A r \in DOMAIN net :
        (VerifyCalled(r) /\ ~VerifyOutcome(r).ok /\ pc[r] # "verify") =>
            /\ CallsOf(r) = <<>>
            /\ pc[r] = "done"
            /\ StatusOf(out[r]) = 400

C2_Witness ==
    \E r \in DOMAIN net :
        /\ ~SomeHeaderAbsentOrEmpty(r)
        /\ VerifyCalled(r)
        /\ net[r].headers["svix-signature"] =
               Sign("whsec_other", Str("msg_1"), Str("t_now"), net[r].body)
        /\ ~VerifyOutcome(r).ok
        /\ pc[r] = "done"
        /\ StatusOf(out[r]) = 400

(***************************************************************************)
(* C3: every triggerWorkflow call is preceded, in the same request, by a   *)
(* Webhook.verify call that succeeded, and its arguments are built from    *)
(* the event that call returned.                                           *)
(***************************************************************************)
C3_TriggerOnlyAfterVerify ==
    \A i \in 1..Len(calls) :
        LET r == calls[i].req
        IN  /\ VerifyCalled(r)
            /\ VerifyOutcome(r).ok
            /\ evt[r] = VerifyOutcome(r).value
            /\ Handle(variant, evt[r]) =
                   Call(calls[i].workflow, calls[i].subscriber, calls[i].payload)

C3_Witness ==
    \E i \in 1..Len(calls) :
        /\ VerifyOutcome(calls[i].req).ok
        /\ evt[calls[i].req].type = "email.created"
        /\ calls[i].subscriber.email = "b@example.com"

(***************************************************************************)
(* C4 (as stated): in every variant, once the signature verification of a  *)
(* request has succeeded the handler returns status 200, whatever the      *)
(* event kind and fields and whatever the remote trigger call does.        *)
(***************************************************************************)
C4_AsStated ==
    \A r \in DOMAIN net :
        (Verified(r) /\ pc[r] = "done") => StatusOf(out[r]) = 200

(***************************************************************************)
(* C5 (as stated): in every variant, a request with a valid signature and  *)
(* kind user.created makes exactly one triggerWorkflow call, with workflow *)
(* identifier 'clerk-user-created'.                                        *)
(***************************************************************************)
C5_AsStated ==
    \A r \in DOMAIN net :
        (Verified(r) /\ evt[r].type = "user.created" /\ pc[r] = "done") =>
            /\ Len(CallsOf(r)) = 1
            /\ CallsOf(r)[1].workflow = "clerk-user-created"

(***************************************************************************)
(* C6 (as stated): in every variant (with its secret configured), a        *)
(* request with all three headers present whose body is not parseable JSON *)
(* is answered with status 400, no exception leaves POST, and no           *)
(* triggerWorkflow call is made.                                           *)
(***************************************************************************)
C6_AsStated ==
    \A r \in DOMAIN net :
        (/\ Configured
         /\ ~SomeHeaderAbsentOrEmpty(r)
         /\ ~JSONparse(net[r].body).ok) =>
            /\ CallsOf(r) = <<>>
            /\ out[r].kind # "throw"
            /\ pc[r] = "done" => StatusOf(out[r]) = 400

(***************************************************************************)
(* C7 (as stated): in every variant, when the signing secret is not        *)
(* configured no request is processed (no header check, no verification,   *)
(* no trigger) and the outcome is a fatal configuration error, not the 400 *)
(* response of a client error.                                             *)
(***************************************************************************)
C7_AsStated ==
    \A r \in DOMAIN net :
        ~Configured =>
            /\ pc[r] \in {"start", "done"}
            /\ ~VerifyCalled(r)
            /\ CallsOf(r) = <<>>
            /\ pc[r] = "done" => (out[r].kind = "throw" /\ StatusOf(out[r]) # 400)

(***************************************************************************)
(* C8 (as stated): in every variant, the string handed to Webhook.verify   *)
(* is the request body as it was received, so that a request whose         *)
(* received body and headers carry a genuine signature is not rejected.    *)
(***************************************************************************)
C8_AsStated ==
    \A r \in DOMAIN net :
        /\ VerifyCalled(r) => body[r] = net[r].body
        /\ (/\ pc[r] = "done"
            /\ VerifyCalled(r)
            /\ WebhookVerify(Getenv(env, SecretVar(variant)), net[r].body,
                             HeadersGet(net[r].headers, "svix-id"),
                             HeadersGet(net[r].headers, "svix-timestamp"),
                             HeadersGet(net[r].headers, "svix-signature")).ok)
           => Verified(r)

(***************************************************************************)
(* C9: in every variant, a verified event whose kind is neither            *)
(* user.created nor email.created makes no triggerWorkflow call and is     *)
(* answered with status 200.                                               *)
(***************************************************************************)
C9_OtherKindsIgnored ==
    \A r \in DOMAIN net :
        (Verified(r) /\ evt[r].type \notin {"user.created", "email.created"}) =>
            /\ CallsOf(r) = <<>>
            /\ out[r].kind # "throw"
            /\ pc[r] = "done" => StatusOf(out[r]) = 200

C9_Witness ==
    \E r \in DOMAIN net :
        /\ Verified(r)
        /\ evt[r].type = "user.updated"
        /\ pc[r] = "done"
        /\ StatusOf(out[r]) = 200
        /\ CallsOf(r) = <<>>

(***************************************************************************)
(* C10 (as stated): in every variant, a verified email.created event whose *)
(* slug is absent or is not one of the six recognized slugs makes no       *)
(* triggerWorkflow call and is answered with status 200.                   *)
(***************************************************************************)
C10_AsStated ==
    \A r \in DOMAIN net :
        (/\ Verified(r)
         /\ evt[r].type = "email.created"
         /\ (Has(evt[r].data, "slug") => evt[r].data.slug \notin
                {VerificationCode, PasswordChanged, MagicLinkSignIn,
                 ResetPasswordCode, OrganizationInvitation, Invitation})) =>
            /\ CallsOf(r) = <<>>
            /\ pc[r] = "done" => StatusOf(out[r]) = 200

\* the novu.trigger calls completed while handling request r
NovuOf(r) == SelectSeq(novu, LAMBDA n : n.req = r)

\* r holds a verified email.created event with one of the six slugs
RecognizedEmail(r) ==
    /\ Verified(r)
    /\ evt[r].type = "email.created"
    /\ Has(evt[r].data, "slug")
    /\ evt[r].data.slug \in
           {VerificationCode, PasswordChanged, MagicLinkSignIn,
            ResetPasswordCode, OrganizationInvitation, Invitation}

(***************************************************************************)
(* C11 (as stated): a verified email.created event with one of the six     *)
(* recognized slugs whose nested data record is missing, null or an empty  *)
(* record makes no triggerWorkflow call and is answered with status 200.   *)
(***************************************************************************)
C11_AsStated ==
    \A r \in DOMAIN net :
        (/\ RecognizedEmail(r)
         /\ \/ ~Has(evt[r].data, "data")
            \/ evt[r].data.data = Null
            \/ evt[r].data.data = EmptyObj) =>
            /\ CallsOf(r) = <<>>
            /\ pc[r] = "done" => StatusOf(out[r]) = 200

(***************************************************************************)
(* C12: every request makes at most one triggerWorkflow call (in the       *)
(* inline handler at most one of the blocks that call it has a true        *)
(* condition), and every triggerWorkflow call makes exactly one            *)
(* novu.trigger call, whether that call succeeds or fails.                 *)
(***************************************************************************)
C12_AtMostOneTrigger ==
    \A r \in DOMAIN net :
        /\ Len(CallsOf(r)) <= 1
        /\ (variant = "inline" /\ Verified(r)) =>
               Cardinality(InlineBlocksFired(evt[r])) <= 1
        /\ Len(NovuOf(r)) =
               IF pc[r] \in {"respond", "done"} THEN Len(CallsOf(r)) ELSE 0

C12_Witness ==
    \E r \in DOMAIN net :
        /\ pc[r] = "done"
        /\ Len(CallsOf(r)) = 1
        /\ Len(NovuOf(r)) = 1
        /\ ~NovuOf(r)[1].resolved

(***************************************************************************)
(* C13 (as stated): every workflow identifier passed to triggerWorkflow is *)
(* one of the seven workflow names the README tells the user to create.    *)
(***************************************************************************)
C13_AsStated ==
    \A i \in 1..Len(calls) :
        calls[i].workflow \in
            {"clerk-user-created", "clerk-verification-code",
             "clerk-password-changed", "clerk-magic-link-sign-in",
             "clerk-reset-password-code", "clerk-organization-invitation",
             "clerk-invitation"}

\* the verified event behind the i-th triggerWorkflow call
EventOf(i) == evt[calls[i].req]

(***************************************************************************)
(* C14 (as stated): in every variant a verified user.created event with id *)
(* 'usr_1', first email address 'a@example.com' and first_name 'Ada' leads *)
(* to a trigger call with subscriber identifier 'clerk_a@example.com',     *)
(* firstName 'Ada', email 'a@example.com' and workflow 'clerk-user-        *)
(* created'; in general the subscriber identifier is 'clerk_' followed by  *)
(* the first entry of the event's email-address list.                      *)
(***************************************************************************)
C14_AsStated ==
    /\ \A r \in DOMAIN net :
          (/\ Verified(r)
           /\ evt[r] = [type |-> "user.created", data |-> UserAda]
           /\ pc[r] = "done") =>
              /\ Len(CallsOf(r)) = 1
              /\ CallsOf(r)[1].workflow = "clerk-user-created"
              /\ CallsOf(r)[1].subscriber.subscriberId = "clerk_a@example.com"
              /\ CallsOf(r)[1].subscriber.firstName = "Ada"
              /\ CallsOf(r)[1].subscriber.email = "a@example.com"
    /\ \A i \in 1..Len(calls) :
          (EventOf(i).type = "user.created"
             /\ Len(EventOf(i).data.email_addresses) > 0) =>
              calls[i].subscriber.subscriberId =
                  "clerk_" \o EventOf(i).data.email_addresses[1].email_address

\* the record of payload fields: the inline handler nests it as body.data
PayloadFields(p) == IF Has(p, "body") THEN p.body.data ELSE p

(***************************************************************************)
(* C15 (as stated): for a verified email.created event with slug           *)
(* verification_code and a non-empty nested data record, the payload       *)
(* passed to triggerWorkflow has a subject field equal to the event's      *)
(* subject and an otp_code field equal to the nested data's otp_code, each *)
(* the empty string when the source field is absent.                       *)
(***************************************************************************)
C15_AsStated ==
    \A i \in 1..Len(calls) :
        (/\ EventOf(i).type = "email.created"
         /\ Has(EventOf(i).data, "slug")
         /\ EventOf(i).data.slug = VerificationCode
         /\ Truthy(EventOf(i).data, "data")
         /\ EventOf(i).data.data # EmptyObj) =>
            /\ PayloadFields(calls[i].payload).subject =
                   (IF Has(EventOf(i).data, "subject")
                    THEN EventOf(i).data.subject ELSE "")
            /\ PayloadFields(calls[i].payload).otp_code =
                   (IF Has(EventOf(i).data.data, "otp_code")
                    THEN EventOf(i).data.data.otp_code ELSE "")

(***************************************************************************)
(* C17: triggerWorkflow never throws: whatever novu.trigger does it        *)
(* returns a response, with status 200 when the remote call succeeded and  *)
(* 500 when it failed, and the route handler goes on to its own 200        *)
(* response without using that status.                                     *)
(***************************************************************************)
C17_TriggerNeverThrows ==
    \A i \in 1..Len(novu) :
        /\ novu[i].resolved => novu[i].returned = 200
        /\ ~novu[i].resolved => novu[i].returned = 500
        /\ pc[novu[i].req] \in {"respond", "done"}
        /\ out[novu[i].req].kind # "throw"
        /\ pc[novu[i].req] = "done" => StatusOf(out[novu[i].req]) = 200

C17_Witness ==
    \E i \in 1..Len(novu) :
        /\ ~novu[i].resolved
        /\ novu[i].returned = 500
        /\ pc[novu[i].req] = "done"
        /\ StatusOf(out[novu[i].req]) = 200

(***************************************************************************)
(* C18 (as stated): for every verified email.created event that leads to a *)
(* trigger call, in every variant, the workflow identifier is the event's  *)
(* slug with every underscore replaced by a hyphen and nothing added.      *)
(***************************************************************************)
C18_AsStated ==
    \A i \in 1..Len(calls) :
        EventOf(i).type = "email.created" =>
            /\ calls[i].workflow = ReplaceUnderscores(SlugOrEmpty(EventOf(i).data))
            /\ SlugOrEmpty(EventOf(i).data) = MagicLinkSignIn =>
                   calls[i].workflow = "magic-link-sign-in"

(***************************************************************************)
(* C18 (amended): for every verified email.created event that leads to a   *)
(* trigger call, the workflow identifier is the event's slug with every    *)
(* underscore replaced by a hyphen, with 'clerk-' put in front of it by    *)
(* the inline handler and nothing added by the table handler               *)
(* (magic_link_sign_in gives 'clerk-magic-link-sign-in' and                *)
(* 'magic-link-sign-in').                                                  *)
(***************************************************************************)
C18_HyphenatedSlug ==
    \A i \in 1..Len(calls) :
        EventOf(i).type = "email.created" =>
            /\ calls[i].workflow =
                   (IF variant = "inline" THEN "clerk-" ELSE "") \o
                   ReplaceUnderscores(SlugOrEmpty(EventOf(i).data))
            /\ SlugOrEmpty(EventOf(i).data) = MagicLinkSignIn =>
                   calls[i].workflow =
                       (IF variant = "inline" THEN "clerk-magic-link-sign-in"
                        ELSE "magic-link-sign-in")

C18_Witness ==
    \E i \in 1..Len(calls) :
        /\ variant = "inline"
        /\ EventOf(i).type = "email.created"
        /\ EventOf(i).data.slug = MagicLinkSignIn
        /\ calls[i].workflow = "clerk-magic-link-sign-in"

(***************************************************************************)
(* C19: for every verified email.created event that leads to a trigger     *)
(* call, the subscriber has identifier 'clerk_' followed by the event's    *)
(* to_email_address and email equal to that address, with the empty        *)
(* string in place of an absent address.                                   *)
(***************************************************************************)
C19_EmailSubscriber ==
    \A i \in 1..Len(calls) :
        EventOf(i).type = "email.created" =>
            IF Has(EventOf(i).data, "to_email_address")
            THEN /\ calls[i].subscriber.subscriberId =
                        "clerk_" \o EventOf(i).data.to_email_address
                 /\ calls[i].subscriber.email = EventOf(i).data.to_email_address
            ELSE /\ calls[i].subscriber.subscriberId = "clerk_"
                 /\ calls[i].subscriber.email = ""

C19_Witness ==
    \E i \in 1..Len(calls) :
        /\ variant = "table"
        /\ EventOf(i).type = "email.created"
        /\ Has(EventOf(i).data, "to_email_address")
        /\ EventOf(i).data.to_email_address = "b@example.com"
        /\ calls[i].subscriber.subscriberId = "clerk_b@example.com"

(***************************************************************************)
(* Two requests in flight.  Every `await` of POST is a point where the     *)
(* other invocation may run, so the steps of the two interleave freely.    *)
(***************************************************************************)
EmailCode ==
    [id |-> "ema_1", to_email_address |-> "b@example.com",
     subject |-> "Your message", slug |-> VerificationCode,
     data |-> NestedNoApp]

EmailLink ==
    [id |-> "ema_2", to_email_address |-> "c@example.com",
     subject |-> "Sign in", slug |-> MagicLinkSignIn,
     data |-> [magic_link |-> "https://acme.example.com/m",
               ttl_minutes |-> "5", app |-> [name |-> "Acme"]]]

ConcEvents ==
    {[type |-> "user.created", data |-> UserAda],
     [type |-> "user.created", data |-> UserFull],
     [type |-> "email.created", data |-> EmailCode],
     [type |-> "email.created", data |-> EmailLink]}

\* each event, signed by the sender or by somebody else
ConcRequests ==
    {[headers |-> MakeHeaders(Str("msg_1"), Str("t_now"),
                              Sign(k, Str("msg_1"), Str("t_now"), Layout(e, 0))),
      body |-> Layout(e, 0)] : e \in ConcEvents, k \in {LiveKey, "whsec_other"}}

InitConc ==
    /\ variant \in Variants
    /\ env = [SIGNING_SECRET |-> LiveKey, CLERK_SIGNING_SECRET |-> LiveKey]
    /\ net \in {n \in [{"r1", "r2"} -> ConcRequests] : n["r1"].body # n["r2"].body}
    /\ pc = [r \in DOMAIN net |-> "start"]
    /\ reqJson = [r \in DOMAIN net |-> Undefined]
    /\ body = [r \in DOMAIN net |-> NoText]
    /\ evt = [r \in DOMAIN net |-> Undefined]
    /\ calls = <<>>
    /\ novu = <<>>
    /\ out = [r \in DOMAIN net |-> Pending]

SpecConc == InitConc /\ [][Next]_vars

\* what the variant does with the event request r carries
OwnHandle(r) == Handle(variant, JSONparse(net[r].body).value)

(***************************************************************************)
(* C16: with two requests of distinct bodies in flight and their steps     *)
(* interleaved in any order, the workflow, subscriber and payload of each  *)
(* trigger call are those built from the event of the request that made    *)
(* the call, and the subscriber is never the one built from the other      *)
(* request's event.                                                        *)
(***************************************************************************)
C16_NoLeak ==
    \A i \in 1..Len(calls) :
        LET r == calls[i].req
        IN  /\ Verified(r)
            /\ OwnHandle(r).kind = "call"
            /\ calls[i].workflow = OwnHandle(r).workflow
            /\ calls[i].subscriber = OwnHandle(r).subscriber
            /\ calls[i].payload = OwnHandle(r).payload
            /\ \A q \in DOMAIN net \ {r} :
                   OwnHandle(q).kind = "call" =>
                       calls[i].subscriber # OwnHandle(q).subscriber

\* both trigger calls are in flight, the later request's call made first
C16_Witness ==
    /\ Len(calls) = 2
    /\ calls[1].req = "r2"
    /\ calls[2].req = "r1"
    /\ pc["r1"] = "trigger"
    /\ pc["r2"] = "trigger"
    /\ calls[1].subscriber # calls[2].subscriber

\* the steps of one request that r's state shows as taken by this transition
BodyReadStep(r) == body[r] = NoText /\ body'[r] # NoText

VerifyStep(r) == evt[r] = Undefined /\ evt'[r] # Undefined

TriggerStartStep(r) == Len(CallsOf(r)') > Len(CallsOf(r))

TriggerEndStep(r) == Len(NovuOf(r)') > Len(NovuOf(r))

RespondStep(r) == out[r] = Pending /\ StatusOf(out'[r]) = 200

\* a triggerWorkflow call of r has started and not yet returned
TriggerInFlight(r) == Len(CallsOf(r)) > Len(NovuOf(r))

(***************************************************************************)
(* C20: within one request the steps are strictly sequential: the body is  *)
(* read only after the three headers were checked and found present,       *)
(* Webhook.verify completes only after the body was read, a triggerWorkflow*)
(* call starts only after verify completed and while no other call of the  *)
(* request is in flight, the 200 response is returned only after the       *)
(* triggerWorkflow call (if any) has returned, and no transition takes two *)
(* of these steps at once.                                                 *)
(***************************************************************************)
C20_Sequential ==
    [][\A r \in DOMAIN net :
          /\ BodyReadStep(r) =>
                 /\ Configured
                 /\ ~HeadersMissing(net[r].headers)
                 /\ ~Verified(r)
                 /\ CallsOf(r) = <<>>
          /\ VerifyStep(r) =>
                 /\ VerifyCalled(r)
                 /\ CallsOf(r) = <<>>
          /\ TriggerStartStep(r) =>
                 /\ Verified(r)
                 /\ ~TriggerInFlight(r)
                 /\ out[r] = Pending
          /\ TriggerEndStep(r) =>
                 /\ TriggerInFlight(r)
                 /\ out[r] = Pending
          /\ RespondStep(r) =>
                 /\ Verified(r)
                 /\ ~TriggerInFlight(r)
          /\ Cardinality({i \in 1..5 :
                            \/ i = 1 /\ BodyReadStep(r)
                            \/ i = 2 /\ VerifyStep(r)
                            \/ i = 3 /\ TriggerStartStep(r)
                            \/ i = 4 /\ TriggerEndStep(r)
                            \/ i = 5 /\ RespondStep(r)}) <= 1]_vars

\* a request that went through every step: read, verified, one trigger call
\* that returned with success, and then the 200 response
C20_Witness ==
    \E r \in DOMAIN net :
        /\ VerifyCalled(r)
        /\ Verified(r)
        /\ Len(CallsOf(r)) = 1
        /\ Len(NovuOf(r)) = 1
        /\ NovuOf(r)[1].resolved
        /\ StatusOf(out[r]) = 200

(***************************************************************************)
(* C21 (as stated): in the table handler the lookup of a payload builder   *)
(* by slug yields a builder exactly when the slug is one of the six keys   *)
(* of emailPayloadBuilders; for every other slug, 'constructor' and        *)
(* 'toString' included, the lookup yields nothing and no trigger call is   *)
(* made.                                                                   *)
(***************************************************************************)
C21_AsStated ==
    \A r \in DOMAIN net :
        (/\ variant = "table"
         /\ Verified(r)
         /\ evt[r].type = "email.created"
         /\ Truthy(evt[r].data, "data")
         /\ pc[r] = "done") =>
            LET slug == SlugOrEmpty(evt[r].data)
            IN  /\ slug \in EmailPayloadBuilderKeys => Len(CallsOf(r)) = 1
                /\ slug \notin EmailPayloadBuilderKeys => CallsOf(r) = <<>>

\* what variant v does with a verified event e: the number of triggerWorkflow
\* calls it makes and the status it answers with (0 when POST throws)
Decision(v, e) ==
    LET h == Handle(v, e)
    IN  [calls |-> IF h.kind = "call" THEN 1 ELSE 0,
         status |-> IF h.kind = "throw"
                    THEN StatusOf(PostCatch(v, "dispatch", h))
                    ELSE 200]

(***************************************************************************)
(* C22 (as stated): on every verified event the three handlers agree on    *)
(* the decision to notify and on the HTTP status: what the deployed        *)
(* handler did with a verified event (trigger call made or not, status     *)
(* returned) is what each of the other two handlers does with that event.  *)
(***************************************************************************)
C22_AsStated ==
    \A r \in DOMAIN net :
        (Verified(r) /\ pc[r] = "done") =>
            \A v \in Variants :
                /\ Decision(v, evt[r]).calls = Len(CallsOf(r))
                /\ Decision(v, evt[r]).status = StatusOf(out[r])

====
